---- MODULE Spec2Model ----
(***************************************************************************)
(* Model of the context store (src/database/definitions.rs) and of the     *)
(* moderation handler (src/main.rs).                                       *)
(*                                                                         *)
(* The store is a worker thread that owns a VecDeque<PartialMessage> and   *)
(* serves three requests from an unbounded crossbeam channel; replies go   *)
(* out on a second unbounded channel whose single receiving end is shared  *)
(* by every handler invocation.  The VecDeque is modelled as the ring      *)
(* buffer it is (items, head, cap) because the worker reads it through     *)
(* as_slices().0, the first contiguous run of the ring only.               *)
(***************************************************************************)
EXTENDS Naturals, Integers, Sequences, FiniteSets, TLC

\* ---------------------------------------------------------------- bounds
MaxContext == 2       \* CONTEXT_SIZE is drawn from 0..MaxContext
MaxMsgs == 2          \* gateway message events delivered to concurrent handlers
MaxSeqMsgs == 5       \* gateway message events handled one after the other
MaxLongMsgs == 53     \* the same, with a capacity above the window size K
MaxReqs == 6          \* requests issued by the direct callers of SpecStore
MaxN == 2             \* window sizes the direct callers ask for: 0..MaxN
NumHandlers == 2      \* concurrently running Handler::message invocations
NumCallers == 1       \* concurrent direct callers of the store handle
MaxQueue == 1         \* requests the direct callers keep in flight at once
MaxTs == 1            \* timestamps compared: -MaxTs..MaxTs

\* ------------------------------------------------------ program constants
K == 20               \* GetLatest(20) in Handler::message
MinNonZeroCap == 4    \* first allocation of VecDeque::new() for an 80-byte element

Handlers == 1..NumHandlers
Callers == (NumHandlers + 1)..(NumHandlers + NumCallers)
BotId == 1            \* Handler.id (APPLICATION_ID)
Authors == {BotId, 2}
Channels == {100}
Outcomes == {"transport_error", "non_success", "malformed", "no_reason", "reason"}
Failures == {"transport_error", "non_success", "malformed"}

VARIABLES
    messages,       \* Database.messages : the VecDeque [items, head, cap]
    requests,       \* channel of DatabaseMessage (handle -> worker)
    replies,        \* channel of Vec<PartialMessage> (worker -> handle)
    worker,         \* "running" | "panicked" : the thread running update()
    context_size,   \* env CONTEXT_SIZE
    nextId,         \* next platform-assigned message id
    pc,             \* position of each Handler::message invocation
    cur,            \* the PartialMessage a handler invocation inserted
    window,         \* the Vec a handler invocation received
    outcome,        \* what the classifier call of the invocation produced
    validates,      \* ValidateEntries sent by the invocation
    cpc,            \* position of each direct caller
    last,           \* history: the request the worker dequeued last
    inserted,       \* history: records the worker inserted, in order
    serial,         \* history: the store under the one-at-a-time reference
    counts,         \* history: requests the direct callers issued, requests lost,
                    \* GetLatest requests left without a reply
    ord             \* two records, the comparison applied to them and its result

vars == <<messages, requests, replies, worker, context_size, nextId, pc, cur,
          window, outcome, validates, cpc, last, inserted, serial, counts, ord>>

handlerVars == <<pc, cur, window, outcome, validates>>
callerVars == <<cpc>>

Max(a, b) == IF a >= b THEN a ELSE b
Min(a, b) == IF a <= b THEN a ELSE b

\* ------------------------------------------------------------ the record
NoMessage == [id |-> 0, channel_id |-> 0, author_id |-> 0, content |-> "",
              status |-> "", timestamp |-> 0]

\* mutant of PartialMessageFrom: the record is born validated
PartialMessageFrom_validated(id, channel_id, author_id) ==
    [id |-> id, channel_id |-> channel_id, author_id |-> author_id,
     content |-> "text", status |-> "validated", timestamp |-> id]

\* PartialMessage::from(Message)
PartialMessageFrom(id, channel_id, author_id) ==
    [id |-> id, channel_id |-> channel_id, author_id |-> author_id,
     content |-> "text", status |-> "not_validated", timestamp |-> id]

\* PartialEq for PartialMessage
eq(a, b) == a.channel_id = b.channel_id /\ a.id = b.id

\* PartialMessage::new
PartialMessageNew(id, channel_id, author_id, content, status, timestamp) ==
    [id |-> id, channel_id |-> channel_id, author_id |-> author_id,
     content |-> content, status |-> status, timestamp |-> timestamp]

\* PartialOrd for PartialMessage
partial_cmp(a, b) ==
    IF a.timestamp = b.timestamp THEN "Equal"
    ELSE IF a.timestamp < b.timestamp THEN "Less" ELSE "Greater"

ge(a, b) == a.timestamp >= b.timestamp
gt(a, b) == a.timestamp > b.timestamp
le(a, b) == a.timestamp <= b.timestamp
lt(a, b) == a.timestamp < b.timestamp

\* mutant of cmp: the natural order of the timestamps
cmp_natural(a, b) ==
    IF a.timestamp = b.timestamp THEN "Equal"
    ELSE IF a.timestamp < b.timestamp THEN "Less" ELSE "Greater"

\* Ord for PartialMessage
cmp(a, b) ==
    IF a.timestamp = b.timestamp THEN "Equal"
    ELSE IF a.timestamp < b.timestamp THEN "Greater" ELSE "Less"

max(a, b) == IF a.timestamp < b.timestamp THEN a ELSE b

min(a, b) == IF a.timestamp < b.timestamp THEN b ELSE a

\* ----------------------------------------------------------- the VecDeque
\* VecDeque::new()
VecDequeNew == [items |-> <<>>, head |-> 0, cap |-> 0]

len(d) == Len(d.items)

\* RawVec::grow_one followed by VecDeque::handle_capacity_increase
grow(d) ==
    LET old_cap == d.cap
        new_cap == Max(Max(2 * old_cap, old_cap + 1), MinNonZeroCap)
        head_len == old_cap - d.head
        tail_len == len(d) - head_len
    IN  IF d.head <= old_cap - len(d)
        THEN [d EXCEPT !.cap = new_cap]
        ELSE IF tail_len < head_len /\ tail_len <= new_cap - old_cap
             THEN [d EXCEPT !.cap = new_cap]
             ELSE [d EXCEPT !.cap = new_cap, !.head = new_cap - head_len]

\* VecDeque::push_back
push_back(d, x) ==
    LET g == IF len(d) = d.cap THEN grow(d) ELSE d
    IN  [g EXCEPT !.items = Append(g.items, x)]

\* VecDeque::pop_front
pop_front(d) ==
    IF len(d) = 0
    THEN d
    ELSE [d EXCEPT !.items = Tail(d.items),
                   !.head = IF d.head + 1 >= d.cap THEN d.head + 1 - d.cap
                            ELSE d.head + 1]

\* VecDeque::as_slices().0 : the run of the ring from head to the end of the
\* buffer, or the whole content when it does not wrap
as_slices_0(d) ==
    IF len(d) = 0 THEN <<>>
    ELSE IF d.cap - d.head >= len(d) THEN d.items
         ELSE SubSeq(d.items, 1, d.cap - d.head)

\* ------------------------------------------------------ the store worker
\* DatabaseMessage, with history tags: the sender, its message id and, for a
\* handler's ValidateEntries, the window the handler had classified
Request(kind, n, message, from, mid) ==
    [kind |-> kind, n |-> n, message |-> message, from |-> from, mid |-> mid,
     seen |-> <<>>]

\* mutant of send: the new message overtakes the queued ones
send_front(q, r) == IF worker = "running" THEN <<r>> \o q ELSE q

\* Sender::send on the request channel: the message is dropped once the
\* worker thread, and with it the receiving end, is gone
send(q, r) == IF worker = "running" THEN Append(q, r) ELSE q

\* history of a send: a message sent to the dropped channel is lost
sent(c) == IF worker = "running" THEN c ELSE [c EXCEPT !.lost = @ + 1]

\* start = max(n_latest, len) - n_latest
window_start(d, n) == Max(n, len(d)) - n

\* the range start.. of as_slices().0 is out of bounds
slice_panics(d, n) == window_start(d, n) > Len(as_slices_0(d))

\* mutant of InsertMessage: the capacity test is off by one
InsertMessage_gt(d, message) ==
    push_back(IF len(d) > context_size THEN pop_front(d) ELSE d, message)

\* update(), arm InsertMessage
InsertMessage(d, message) ==
    push_back(IF len(d) >= context_size THEN pop_front(d) ELSE d, message)

\* update(), arm GetLatest: as_slices().0[start..].to_vec()
GetLatest(d, n) ==
    SubSeq(as_slices_0(d), window_start(d, n) + 1, Len(as_slices_0(d)))

\* mutant of ValidateEntries: the status of the window is flipped
ValidateEntries_flip(d, n) ==
    [d EXCEPT !.items =
        [i \in DOMAIN d.items |->
            IF i > window_start(d, n) /\ i <= Len(as_slices_0(d))
            THEN [d.items[i] EXCEPT !.status = IF @ = "validated" THEN "not_validated"
                                                ELSE "validated"]
            ELSE d.items[i]]]

\* update(), arm ValidateEntries: as_mut_slices().0[start..] set to validated
ValidateEntries(d, n) ==
    [d EXCEPT !.items =
        [i \in DOMAIN d.items |->
            IF i > window_start(d, n) /\ i <= Len(as_slices_0(d))
            THEN [d.items[i] EXCEPT !.status = "validated"]
            ELSE d.items[i]]]

\* ------------------------------------------- one-at-a-time reference store
LastCount(s, n) == Min(n, Len(s))

LastN(s, n) == SubSeq(s, Len(s) - LastCount(s, n) + 1, Len(s))

MarkLastN(s, n) ==
    [i \in DOMAIN s |->
        IF i > Len(s) - LastCount(s, n)
        THEN [s[i] EXCEPT !.status = "validated"] ELSE s[i]]

BoundedAppend(s, x) ==
    Append(IF Len(s) >= context_size /\ s # <<>> THEN Tail(s) ELSE s, x)

SerialApply(s, req) ==
    CASE req.kind = "InsertMessage" -> BoundedAppend(s, req.message)
      [] req.kind = "ValidateEntries" -> MarkLastN(s, req.n)
      [] OTHER -> s

NoRequest == [kind |-> "none", from |-> 0, mid |-> 0]

Tag(req) == [kind |-> req.kind, from |-> req.from, mid |-> req.mid]

\* Database::update : one iteration of the receive loop
update ==
    /\ worker = "running"
    /\ requests # <<>>
    /\ LET req == Head(requests)
           panics == /\ req.kind \in {"GetLatest", "ValidateEntries"}
                     /\ slice_panics(messages, req.n)
           replied == req.kind = "GetLatest" /\ ~panics
       IN  /\ messages' =
                CASE req.kind = "InsertMessage" -> InsertMessage(messages, req.message)
                  [] req.kind = "ValidateEntries" /\ ~panics ->
                        ValidateEntries(messages, req.n)
                  [] OTHER -> messages
           /\ replies' = IF replied THEN Append(replies, GetLatest(messages, req.n))
                         ELSE replies
           /\ worker' = IF panics THEN "panicked" ELSE "running"
           /\ requests' = IF panics THEN <<>> ELSE Tail(requests)
           /\ last' = [kind |-> req.kind, n |-> req.n, from |-> req.from,
                       mid |-> req.mid, message |-> req.message, seen |-> req.seen,
                       pre |-> messages.items,
                       reply |-> IF replied THEN GetLatest(messages, req.n) ELSE <<>>,
                       replied |-> replied, panicked |-> panics,
                       evicted |-> IF req.kind = "InsertMessage"
                                   THEN len(messages) + 1 - len(messages') ELSE 0,
                       prev |-> [kind |-> last.kind, from |-> last.from,
                                 mid |-> last.mid]]
           /\ inserted' = IF req.kind = "InsertMessage"
                          THEN Append(inserted, req.message) ELSE inserted
           /\ serial' = SerialApply(serial, req)
           /\ counts' = [counts EXCEPT
                            !.lost = IF panics THEN @ + Len(requests) - 1 ELSE @,
                            !.unreplied = IF req.kind = "GetLatest" /\ ~replied
                                          THEN @ + 1 ELSE @]
    /\ UNCHANGED <<ord, context_size, nextId, handlerVars, callerVars>>

\* ------------------------------------------------------------ the handler
\* Handler::message up to the first send: a gateway event starts an
\* invocation; a message of the bot itself returns at once
message_from(h, limit, authors) ==
    /\ pc[h] \in {"idle", "done", "panicked"}
    /\ nextId <= limit
    /\ \E channel_id \in Channels, author_id \in authors :
          LET m == PartialMessageFrom(nextId, channel_id, author_id)
          IN  IF author_id = BotId
              THEN /\ pc' = [pc EXCEPT ![h] = "done"]
                   /\ cur' = [cur EXCEPT ![h] = NoMessage]
                   /\ UNCHANGED <<requests, counts>>
              ELSE /\ pc' = [pc EXCEPT ![h] = "inserted"]
                   /\ cur' = [cur EXCEPT ![h] = m]
                   /\ requests' = send(requests,
                                       Request("InsertMessage", 0, m, h, nextId))
                   /\ counts' = sent(counts)
    /\ nextId' = nextId + 1
    /\ window' = [window EXCEPT ![h] = <<>>]
    /\ outcome' = [outcome EXCEPT ![h] = "none"]
    /\ validates' = [validates EXCEPT ![h] = 0]
    /\ UNCHANGED <<ord, messages, replies, worker, context_size, callerVars, last,
                   inserted, serial>>

message_event(h, limit) == message_from(h, limit, Authors)

message(h) == message_event(h, MaxMsgs)

\* sender.send(DatabaseMessage::GetLatest(20))
get_latest(h) ==
    /\ pc[h] = "inserted"
    /\ requests' = send(requests, Request("GetLatest", K, NoMessage, h, cur[h].id))
    /\ counts' = sent(counts)
    /\ pc' = [pc EXCEPT ![h] = "waiting"]
    /\ UNCHANGED <<ord, messages, replies, worker, context_size, nextId, cur, window,
                   outcome, validates, callerVars, last, inserted, serial>>

\* receiver.recv().unwrap() : takes whatever reply is first on the shared
\* reply channel; an empty channel whose sender is gone panics the handler
recv(h) ==
    /\ pc[h] = "waiting"
    /\ replies # <<>> \/ worker = "panicked"
    /\ IF replies # <<>>
       THEN /\ window' = [window EXCEPT ![h] = Head(replies)]
            /\ replies' = Tail(replies)
            /\ pc' = [pc EXCEPT ![h] = "windowed"]
       ELSE /\ pc' = [pc EXCEPT ![h] = "panicked"]
            /\ UNCHANGED <<window, replies>>
    /\ UNCHANGED <<ord, messages, requests, worker, context_size, nextId, cur, outcome,
                   validates, callerVars, last, inserted, serial, counts>>

\* Handler::ai_request up to the await of the POST: messages[0] is read first
ai_request_post(h) ==
    /\ pc[h] = "windowed"
    /\ pc' = [pc EXCEPT ![h] = IF window[h] = <<>> THEN "panicked" ELSE "awaiting"]
    /\ UNCHANGED <<ord, messages, requests, replies, worker, context_size, nextId, cur,
                   window, outcome, validates, callerVars, last, inserted, serial,
                   counts>>

\* the ValidateEntries the handler sends: its argument is channel_id, the
\* channel of the first record of the window
validate_request(h) ==
    [Request("ValidateEntries", window[h][1].channel_id, NoMessage, h, cur[h].id)
        EXCEPT !.seen = window[h]]

\* mutant of response_panics: a body that does not parse is let through
response_panics_status_only(o) == o = "non_success"

\* the response ends in panic!, in unwrap() of a failed parse, or normally
response_panics(o) == o \in {"non_success", "malformed"}

\* mutant of response_next: a failed transport sends the handler back to
\* classify the window again
response_next_retry(o) ==
    IF o = "transport_error" THEN "windowed"
    ELSE IF response_panics(o) THEN "panicked" ELSE "done"

\* where the invocation ends: in a panic or at the end of ai_request
response_next(o) == IF response_panics(o) THEN "panicked" ELSE "done"

\* mutant of sends_validate: everything but a clean verdict marks the window
sends_validate_unless_clean(o) == o # "no_reason"

\* mutant of sends_validate: the verdict is acted on whether or not it has a reason
sends_validate_any_verdict(o) == o \in {"reason", "no_reason"}

\* if let Some(reason) = validation.reason
sends_validate(o) == o = "reason"

\* Handler::ai_request from the response on; the invocation ends here and its
\* locals are dropped
ai_request_response(h) ==
    /\ pc[h] = "awaiting"
    /\ \E o \in Outcomes :
          /\ outcome' = [outcome EXCEPT ![h] = o]
          /\ pc' = [pc EXCEPT ![h] = response_next(o)]
          /\ cur' = [cur EXCEPT ![h] = NoMessage]
          /\ window' = [window EXCEPT ![h] = <<>>]
          /\ IF sends_validate(o)
             THEN /\ requests' = send(requests, validate_request(h))
                  /\ validates' = [validates EXCEPT ![h] = @ + 1]
                  /\ counts' = sent(counts)
             ELSE UNCHANGED <<requests, validates, counts>>
    /\ UNCHANGED <<ord, messages, replies, worker, context_size, nextId, callerVars, last,
                   inserted, serial>>

\* --------------------------------------- direct callers of the store handle
CallerChannel == CHOOSE c \in Channels : TRUE

CanIssue(c) ==
    /\ cpc[c] = "ready"
    /\ counts.issued < MaxReqs
    /\ Len(requests) < MaxQueue

CallerInsert(c) ==
    /\ CanIssue(c)
    /\ requests' = send(requests,
                        Request("InsertMessage", 0,
                                PartialMessageFrom(nextId, CallerChannel, 2), c, nextId))
    /\ nextId' = nextId + 1
    /\ counts' = [sent(counts) EXCEPT !.issued = @ + 1]
    /\ UNCHANGED <<ord, messages, replies, worker, context_size, handlerVars, callerVars,
                   last, inserted, serial>>

CallerGetLatest(c) ==
    /\ CanIssue(c)
    /\ \E n \in 0..MaxN :
          requests' = send(requests, Request("GetLatest", n, NoMessage, c, 0))
    /\ cpc' = [cpc EXCEPT ![c] = "waiting"]
    /\ counts' = [sent(counts) EXCEPT !.issued = @ + 1]
    /\ UNCHANGED <<ord, messages, replies, worker, context_size, nextId, handlerVars,
                   last, inserted, serial>>

CallerValidateEntries(c) ==
    /\ CanIssue(c)
    /\ \E n \in 0..MaxN :
          requests' = send(requests, Request("ValidateEntries", n, NoMessage, c, 0))
    /\ counts' = [sent(counts) EXCEPT !.issued = @ + 1]
    /\ UNCHANGED <<ord, messages, replies, worker, context_size, nextId, handlerVars,
                   callerVars, last, inserted, serial>>

CallerRecv(c) ==
    /\ cpc[c] = "waiting"
    /\ replies # <<>> \/ worker = "panicked"
    /\ IF replies # <<>>
       THEN /\ replies' = Tail(replies)
            /\ cpc' = [cpc EXCEPT ![c] = "ready"]
       ELSE /\ cpc' = [cpc EXCEPT ![c] = "failed"]
            /\ UNCHANGED replies
    /\ UNCHANGED <<ord, messages, requests, worker, context_size, nextId, handlerVars,
                   last, inserted, serial, counts>>

\* ------------------------------------------------- the record comparisons
Timestamps == (0 - MaxTs)..MaxTs

Comparable ==
    {PartialMessageNew(id, channel_id, 2, "text", "not_validated", timestamp) :
        id \in 1..2, channel_id \in Channels, timestamp \in Timestamps}

NoComparison == [a |-> NoMessage, b |-> NoMessage, op |-> "none", result |-> "none"]

storeVars == <<messages, requests, replies, worker, context_size, nextId, pc, cur,
               window, outcome, validates, cpc, last, inserted, serial, counts>>

Compare(op, result) ==
    /\ ord.op = "none"
    /\ ord' = [ord EXCEPT !.op = op, !.result = result]
    /\ UNCHANGED storeVars

apply_cmp == Compare("cmp", cmp(ord.a, ord.b))
apply_partial_cmp == Compare("partial_cmp", partial_cmp(ord.a, ord.b))
apply_lt == Compare("lt", lt(ord.a, ord.b))
apply_le == Compare("le", le(ord.a, ord.b))
apply_gt == Compare("gt", gt(ord.a, ord.b))
apply_ge == Compare("ge", ge(ord.a, ord.b))
apply_max == Compare("max", max(ord.a, ord.b))
apply_min == Compare("min", min(ord.a, ord.b))

\* ---------------------------------------------------------- specifications
\* Database::new and Handler::default
StartupWith(sizes) ==
    /\ messages = VecDequeNew
    /\ requests = <<>>
    /\ replies = <<>>
    /\ worker = "running"
    /\ context_size \in sizes
    /\ nextId = 1
    /\ pc = [h \in Handlers |-> "idle"]
    /\ cur = [h \in Handlers |-> NoMessage]
    /\ window = [h \in Handlers |-> <<>>]
    /\ outcome = [h \in Handlers |-> "none"]
    /\ validates = [h \in Handlers |-> 0]
    /\ cpc = [c \in Callers |-> "ready"]
    /\ last = [kind |-> "none", n |-> 0, from |-> 0, mid |-> 0, message |-> NoMessage,
               seen |-> <<>>,
               pre |-> <<>>, reply |-> <<>>, replied |-> FALSE, panicked |-> FALSE,
               evicted |-> 0, prev |-> NoRequest]
    /\ inserted = <<>>
    /\ serial = <<>>
    /\ counts = [issued |-> 0, lost |-> 0, unreplied |-> 0]

Startup == StartupWith(0..MaxContext)

Init == Startup /\ ord = NoComparison

\* the bot: gateway events handled concurrently, and the store worker
Next ==
    \/ update
    \/ \E h \in Handlers : message(h)
    \/ \E h \in Handlers : get_latest(h)
    \/ \E h \in Handlers : recv(h)
    \/ \E h \in Handlers : ai_request_post(h)
    \/ \E h \in Handlers : ai_request_response(h)

Spec == Init /\ [][Next]_vars

\* the bot handling its messages one at a time: a single invocation is live
First == CHOOSE h \in Handlers : \A g \in Handlers : h <= g

NextOne ==
    \/ update
    \/ message_event(First, MaxSeqMsgs)
    \/ get_latest(First)
    \/ recv(First)
    \/ ai_request_post(First)
    \/ ai_request_response(First)

SpecOne == Init /\ [][NextOne]_vars

\* the bot handling the messages of other users one at a time, with a
\* CONTEXT_SIZE just above the window size of GetLatest
InitLong == StartupWith({K + 1, K + 2}) /\ ord = NoComparison

NextLong ==
    \/ update
    \/ message_from(First, MaxLongMsgs, Authors \ {BotId})
    \/ get_latest(First)
    \/ recv(First)
    \/ ai_request_post(First)
    \/ ai_request_response(First)

SpecLong == InitLong /\ [][NextLong]_vars

\* the worker thread and the blocked handler are scheduled
SpecLongFair == SpecLong /\ WF_vars(update) /\ WF_vars(recv(First))

SpecOneFair == SpecOne /\ WF_vars(update) /\ WF_vars(recv(First))

\* the comparisons of PartialMessage applied to every pair of records
InitOrd ==
    /\ Startup
    /\ ord \in {[a |-> a, b |-> b, op |-> "none", result |-> "none"] :
                    a \in Comparable, b \in Comparable}

NextOrd ==
    \/ apply_cmp
    \/ apply_partial_cmp
    \/ apply_lt
    \/ apply_le
    \/ apply_gt
    \/ apply_ge
    \/ apply_max
    \/ apply_min

SpecOrd == InitOrd /\ [][NextOrd]_vars

\* the store alone, driven through its handle with every request and window size
NextStore ==
    \/ update
    \/ \E c \in Callers : CallerInsert(c)
    \/ \E c \in Callers : CallerGetLatest(c)
    \/ \E c \in Callers : CallerValidateEntries(c)
    \/ \E c \in Callers : CallerRecv(c)

SpecStore == Init /\ [][NextStore]_vars

\* ------------------------------------------------------------------ claims
HasRecord(w, r) == \E i \in DOMAIN w : eq(w[i], r)

\* C1 (as claimed): the window a handler receives after its InsertMessage and
\* GetLatest contains the record it inserted.
C1_ReadAfterWrite ==
    \A h \in Handlers :
        pc[h] \in {"windowed", "awaiting"} => HasRecord(window[h], cur[h])

\* C2: with a capacity of at least 1 the store never holds more than
\* context_size records, and they are the min(context_size, inserts) most
\* recently inserted records in insertion order.
C2_BoundedFifo ==
    context_size >= 1 =>
        /\ len(messages) <= context_size
        /\ len(messages) = Min(context_size, Len(inserted))
        /\ \A i \in 1..len(messages) :
              eq(messages.items[i], LastN(inserted, context_size)[i])

C2_Witness ==
    /\ context_size >= 1
    /\ Len(inserted) > context_size + 1
    /\ last.kind = "InsertMessage"
    /\ last.evicted = 1
    /\ messages.head > 0

\* C3 (as claimed): the reply to GetLatest(n) is the last min(n, len) stored
\* records in stored order.
C3_Windowing ==
    last.kind = "GetLatest" => last.replied /\ last.reply = LastN(last.pre, last.n)

\* C4 (as claimed): ValidateEntries(n) marks exactly the last min(n, len)
\* stored records validated and changes nothing else.
C4_ValidationScope ==
    last.kind = "ValidateEntries" =>
        ~last.panicked /\ messages.items = MarkLastN(last.pre, last.n)

\* C5 (as claimed): a verdict with a reason makes the handler send exactly one
\* ValidateEntries, whose argument is the window size K of its GetLatest.
C5_ValidateUsesK ==
    /\ \A h \in Handlers : outcome[h] = "reason" => validates[h] = 1
    /\ \A i \in DOMAIN requests :
          requests[i].kind = "ValidateEntries" => requests[i].n = K

\* C6 (as claimed): no issued request is lost, and the store equals the result
\* of applying the dequeued requests one at a time.
C6_Serializable ==
    /\ counts.lost = 0
    /\ messages.items = serial

\* C7 (as claimed): the request the worker processed just before a handler's
\* GetLatest is that handler's own InsertMessage.
C7_ConsistentSnapshot ==
    last.kind = "GetLatest" =>
        /\ last.prev.kind = "InsertMessage"
        /\ last.prev.mid = last.mid

WasInserted(mid) == \E k \in DOMAIN inserted : inserted[k].id = mid

\* C7 (amended): the worker processes a handler's InsertMessage before the
\* GetLatest the handler sent after it; requests of other callers may come
\* between the two.
C7_InsertBeforeGetLatest ==
    /\ last.kind = "GetLatest" => WasInserted(last.mid)
    /\ \A i \in DOMAIN requests :
          requests[i].kind = "GetLatest" =>
              \/ WasInserted(requests[i].mid)
              \/ \E j \in 1..(i - 1) :
                    /\ requests[j].kind = "InsertMessage"
                    /\ requests[j].mid = requests[i].mid

C7_Witness ==
    /\ last.kind = "GetLatest"
    /\ last.replied
    /\ last.prev.kind = "InsertMessage"
    /\ last.prev.from # last.from

\* C8 (as claimed): the replies sent equal the GetLatest requests processed,
\* that is, no GetLatest the worker dequeued is left without its reply.
C8_ReplyAccounting ==
    /\ counts.unreplied = 0
    /\ last.kind = "GetLatest" <=> last.replied

\* C9 (as claimed): the worker never panics on a request.
C9_NeverPanics == worker = "running" /\ ~last.panicked

\* C10: a handler whose classification failed has sent no ValidateEntries.
C10_FailureSendsNoValidate ==
    \A h \in Handlers : outcome[h] \in Failures => validates[h] = 0

C10_Witness ==
    \E h \in Handlers :
        /\ outcome[h] = "non_success"
        /\ pc[h] = "panicked"
        /\ len(messages) > 0

\* C11: a handler whose verdict has no reason ends normally and has sent no
\* ValidateEntries, and the step that handles the verdict leaves the request
\* channel and the store as they were.
C11_NoReasonSendsNothing ==
    [][\A h \in Handlers :
          (pc[h] = "awaiting" /\ outcome'[h] = "no_reason") =>
              /\ requests' = requests
              /\ messages' = messages
              /\ validates'[h] = 0
              /\ pc'[h] = "done"]_vars

C11_Witness ==
    \E h \in Handlers :
        /\ outcome[h] = "no_reason"
        /\ pc[h] = "done"
        /\ validates[h] = 0
        /\ len(messages) > 0

\* C12: processing ValidateEntries(n) a second time changes nothing: the store
\* a ValidateEntries left behind is a fixed point of it, and on every reachable
\* store twice equals once for every n.
C12_ValidateIdempotent ==
    /\ (last.kind = "ValidateEntries" /\ ~last.panicked) =>
            ValidateEntries(messages, last.n) = messages
    /\ \A n \in 0..(MaxN + 1) :
            ~slice_panics(messages, n) =>
                /\ ~slice_panics(ValidateEntries(messages, n), n)
                /\ ValidateEntries(ValidateEntries(messages, n), n) =
                        ValidateEntries(messages, n)

C12_Witness ==
    /\ last.kind = "ValidateEntries"
    /\ last.prev.kind = "ValidateEntries"
    /\ ~last.panicked
    /\ last.n >= 1
    /\ messages.items = last.pre
    /\ \E i \in DOMAIN messages.items : messages.items[i].status = "validated"

\* C13 (as claimed): a transport failure, a non-success status and a malformed
\* body each abort the handler.
C13_EveryFailureIsFatal ==
    \A h \in Handlers : outcome[h] \in Failures => pc[h] = "panicked"

\* C13 (amended): a non-success status and a malformed body abort the handler;
\* a transport failure does not, the handler ends normally.
C13_StatusAndBodyAreFatal ==
    \A h \in Handlers :
        /\ outcome[h] \in {"non_success", "malformed"} => pc[h] = "panicked"
        /\ outcome[h] = "transport_error" => pc[h] = "done"

C13_Witness ==
    /\ \E h \in Handlers : outcome[h] = "transport_error" /\ pc[h] = "done"
    /\ \E h \in Handlers : outcome[h] = "malformed" /\ pc[h] = "panicked"

\* the steps of one invocation, in order
StepOrder ==
    {<<"idle", "inserted">>, <<"done", "inserted">>, <<"panicked", "inserted">>,
     <<"idle", "done">>, <<"done", "done">>, <<"panicked", "done">>,
     <<"inserted", "waiting">>,
     <<"waiting", "windowed">>, <<"waiting", "panicked">>,
     <<"windowed", "awaiting">>, <<"windowed", "panicked">>,
     <<"awaiting", "done">>, <<"awaiting", "panicked">>}

\* C14: an invocation moves insert sent -> GetLatest sent -> reply received ->
\* classifier called -> end, never back; it sends a ValidateEntries only as its
\* last step and at most once.
C14_StepOrder ==
    [][\A h \in Handlers :
          /\ pc'[h] # pc[h] => <<pc[h], pc'[h]>> \in StepOrder
          /\ validates'[h] \in {0, 1}
          /\ validates'[h] > validates[h] => pc[h] = "awaiting" /\ pc'[h] = "done"
          /\ (pc[h] \in {"inserted", "waiting", "windowed"} /\ pc'[h] # "panicked")
                => outcome'[h] = "none" /\ validates'[h] = 0]_vars

C14_Witness ==
    \E h \in Handlers :
        /\ pc[h] = "done"
        /\ outcome[h] = "reason"
        /\ validates[h] = 1

\* C16 (as claimed): for every capacity, 0 included, the store holds at most
\* context_size records after an InsertMessage, which evicts at most one.
C16_LengthWithinCapacity ==
    last.kind = "InsertMessage" =>
        /\ len(messages) <= context_size
        /\ last.evicted <= 1

\* the records of w that the step changed the status of
Marked(before, after) ==
    {i \in DOMAIN after :
        \E j \in DOMAIN before :
            eq(before[j], after[i]) /\ before[j].status # after[i].status}

\* C18 (as claimed): the records a handler's ValidateEntries marks are records
\* of the window that handler had sent to the classifier.
C18_MarkedWereClassified ==
    (last.kind = "ValidateEntries" /\ last.from \in Handlers) =>
        \A i \in Marked(last.pre, messages.items) :
            HasRecord(last.seen, messages.items[i])

\* C19: a record enters the store not_validated, a stored record changes its
\* status only when the worker processes a ValidateEntries, and a validated
\* record stays validated while it is stored.
C19_StatusMonotonic ==
    [][\A i \in DOMAIN messages'.items :
          LET r == messages'.items[i]
              old == {j \in DOMAIN messages.items : eq(messages.items[j], r)}
          IN  IF old = {}
              THEN r.status = "not_validated"
              ELSE \A j \in old :
                      /\ messages.items[j].status = "validated" => r.status = "validated"
                      /\ r.status # messages.items[j].status =>
                            /\ requests # <<>>
                            /\ Head(requests).kind = "ValidateEntries"]_vars

C19_Witness ==
    /\ last.kind = "InsertMessage"
    /\ last.evicted = 1
    /\ \E i \in DOMAIN messages.items :
          /\ messages.items[i].status = "validated"
          /\ HasRecord(last.pre, messages.items[i])

Later(a, b) == a.timestamp > b.timestamp

\* C17 (as claimed): when a has the larger timestamp, cmp, partial_cmp, lt, le,
\* gt and ge all report a as less than b, and max and min follow that order.
C17_AllComparisonsReversed ==
    Later(ord.a, ord.b) =>
        /\ ord.op = "cmp" => ord.result = "Less"
        /\ ord.op = "partial_cmp" => ord.result = "Less"
        /\ ord.op = "lt" => ord.result = TRUE
        /\ ord.op = "le" => ord.result = TRUE
        /\ ord.op = "gt" => ord.result = FALSE
        /\ ord.op = "ge" => ord.result = FALSE
        /\ ord.op = "max" => ord.result = ord.b
        /\ ord.op = "min" => ord.result = ord.a

\* C17 (amended): the comparisons use the timestamp only; when a has the larger
\* timestamp, cmp reports a as less than b and max and min follow cmp, while
\* partial_cmp, lt, le, gt and ge report a as greater than b.
C17_OnlyCmpReversed ==
    /\ Later(ord.a, ord.b) =>
        /\ ord.op = "cmp" => ord.result = "Less"
        /\ ord.op = "max" => ord.result = ord.b
        /\ ord.op = "min" => ord.result = ord.a
        /\ ord.op = "partial_cmp" => ord.result = "Greater"
        /\ ord.op = "lt" => ord.result = FALSE
        /\ ord.op = "le" => ord.result = FALSE
        /\ ord.op = "gt" => ord.result = TRUE
        /\ ord.op = "ge" => ord.result = TRUE
    /\ ord.a.timestamp = ord.b.timestamp =>
        /\ ord.op \in {"cmp", "partial_cmp"} => ord.result = "Equal"
        /\ ord.op \in {"le", "ge"} => ord.result = TRUE
        /\ ord.op \in {"lt", "gt"} => ord.result = FALSE

C17_Witness ==
    /\ Later(ord.a, ord.b)
    /\ ord.a.id # ord.b.id
    /\ ord.op = "cmp"
    /\ ord.result = "Less"

\* C15 (as claimed): with the worker scheduled, a handler blocked after its
\* GetLatest eventually receives a window.
C15_BlockedHandlerIsServed ==
    \A h \in Handlers : (pc[h] = "waiting") ~> (pc[h] = "windowed")

\* C20 (as claimed): the window a handler goes on to classify is never empty.
C20_WindowNeverEmpty ==
    \A h \in Handlers : pc[h] = "windowed" => window[h] # <<>>

====
